---- MODULE Spec2Model ----
(***************************************************************************)
(* Model of src/app.py: the batch content-audit service.                   *)
(*                                                                         *)
(*  - the per-session job record (task_status[audit_type][session_id]),    *)
(*    the control surface (upload / run / control / status / statistics)   *)
(*    and the background worker threads (process_*_file);                  *)
(*  - the per-item clients (process_comment, process_cover, audit_content, *)
(*    process_brand_content, extract_news_info, audit_news_*_fixed);       *)
(*  - the reply parsers (parse_audit_result, parse_audit_result_push,      *)
(*    parse_tags, extract_tags_from_content, the inline parser of          *)
(*    process_cover) and the news aggregation.                             *)
(*                                                                         *)
(* Strings of the source are written in ASCII:                             *)
(*   "normal" = 正常, "lowq" = 低质, "violation" = 违规,                    *)
(*   "parse_failed" = 解析失败, "failed" = 处理失败,                        *)
(*   "timeout" = 请求超时, "service_error" = 服务异常,                      *)
(*   "no_content" = 无内容, "no_data" = 无数据, "no_tag" = 无标签,          *)
(*   "no_image" = 无图片, "text_extract_failed" = 文本提取失败,            *)
(*   "image_failed" = 图片处理失败, "text_audit_failed" = 文本审核失败,    *)
(*   "image_audit_failed" = 图片审核失败, "small_image" = 小图片,          *)
(*   "not_audited" = 未审核, "wu" = 无, "ad" = 广告, "porn" = 色情.         *)
(***************************************************************************)
EXTENDS Integers, Sequences, FiniteSets, TLC

\* ------------------------------------------------------------ bounds
\* raw rows of an uploaded dataset
MaxRows == 2
\* control commands (upload, run, pause, resume, finish, end) of one behaviour
MaxCmds == 4
\* worker threads alive at the same time
MaxWorkers == 2
\* raw rows of a dataset long enough to fill a save batch
LongRows == 11
\* conversation ids the endpoint hands out
MaxTokens == 2
\* runs of one push session, and calls of one run
MaxRuns == 2
MaxCalls == 3
\* threads that call process_cover, and seconds of the clock
MaxCallers == 2
MaxClock == 3

\* ------------------------------------------------------------ constants
MAX_RETRIES == 3
max_retries == 3

AuditTypes == {"comment", "cover", "push", "brand", "news"}

None == "none"

\* ------------------------------------------------------------ sequences
RECURSIVE SeqToSet(_)
SeqToSet(s) == IF s = <<>> THEN {} ELSE {Head(s)} \cup SeqToSet(Tail(s))

RECURSIVE Filter(_, _)
\* the elements of s that are not in drop, order kept
Filter(s, drop) ==
    IF s = <<>> THEN <<>>
    ELSE IF Head(s) \in drop THEN Filter(Tail(s), drop)
         ELSE <<Head(s)>> \o Filter(Tail(s), drop)

\* fixed total order used wherever Python leaves the order of a set open
TagOrder ==
    <<"porn", "ad", "wu", "/", "no_tag", "no_image", "text_extract_failed",
      "image_failed", "text_audit_failed", "image_audit_failed", "small_image">>

SetToSeq(S) == Filter(TagOrder, SeqToSet(TagOrder) \ S)

\* ------------------------------------------------------------ replies
(* A reply of the endpoint (the "answer" field), reduced to what the        *)
(* parsers look at:                                                         *)
(*   null   the answer is JSON null                                         *)
(*   numV   the verdict label carries the （1） prefix                       *)
(*   vLabel "long" = 审核结果, "short" = 结果, None = no verdict label       *)
(*   vWord  the token after the verdict label                               *)
(*   numT   the tag label carries the （2） prefix                           *)
(*   tLabel "lowq_tag" = 低质标签, "viol_tag" = 违规标签, "tag" = 标签       *)
(*   tText  the tokens of the tag text, split at the separators            *)
(*   free   verdict keywords in the rest of the text                        *)
(*   ftags  taxonomy keywords in the rest of the text                       *)
(*   vWord is one of "normal", "lowq", "violation", "other"; the tokens of   *)
(*   tText are "ad", "porn", "/" and "wu"                                   *)
\* a reply without labels and without keywords
PlainReply ==
    [null |-> FALSE, numV |-> FALSE, vLabel |-> None, vWord |-> "other",
     numT |-> FALSE, tLabel |-> None, tText |-> <<"/">>, free |-> {}, ftags |-> {}]

\* re.search(result_patterns[i], filtered_message): the captured token or None
ResultMatch(r, i) ==
    CASE i = 1 -> IF r.numV /\ r.vLabel = "long" THEN r.vWord ELSE None
      [] i = 2 -> IF r.vLabel = "long" THEN r.vWord ELSE None
      [] OTHER -> IF r.vLabel # None /\ r.vWord \in {"normal", "lowq", "violation"}
                  THEN r.vWord ELSE None

\* re.search(tag_patterns[i], filtered_message) matches; it captures r.tText
TagMatch(r, i) ==
    CASE i = 1 -> r.numT /\ r.tLabel = "lowq_tag"
      [] i = 2 -> r.tLabel = "lowq_tag"
      [] OTHER -> r.tLabel # None

\* kw in filtered_message
Contains(r, kw) ==
    \/ kw \in r.free
    \/ r.vLabel # None /\ r.vWord = kw
    \/ kw = "lowq" /\ r.tLabel = "lowq_tag"
    \/ kw = "violation" /\ r.tLabel = "viol_tag"

parse_tags(tag_str) ==
    IF tag_str \in {<<"/">>, <<"wu">>, <<"no_tag">>} THEN <<>>
    ELSE Filter(tag_str, {"/", "wu", "no_tag"})

\* the taxonomy dict is walked in its insertion order: 色情 before 广告
extract_tags_from_content(r) ==
    LET inText == r.ftags \cup (IF r.tLabel # None THEN SeqToSet(r.tText) ELSE {})
    IN  Filter(<<"porn", "ad">>, {"porn", "ad"} \ inText)

FirstResult(r) ==
    IF ResultMatch(r, 1) # None THEN ResultMatch(r, 1)
    ELSE IF ResultMatch(r, 2) # None THEN ResultMatch(r, 2)
    ELSE ResultMatch(r, 3)

FirstTags(r) ==
    IF TagMatch(r, 1) \/ TagMatch(r, 2) \/ TagMatch(r, 3) THEN parse_tags(r.tText)
    ELSE <<>>

\* step 3 of parse_audit_result: the keyword fallback
KeywordResult(r) ==
    IF Contains(r, "normal") /\ ~Contains(r, "violation") /\ ~Contains(r, "lowq")
    THEN "normal"
    ELSE IF Contains(r, "lowq") \/ Contains(r, "violation") THEN "lowq"
    ELSE "parse_failed"

\* steps 4 to 6 of parse_audit_result: a lone placeholder tag is dropped, a
\* low-quality verdict without tags takes its tags from the text
CleanTags(r, result, tags) ==
    LET tags2 == IF Len(tags) = 1 /\ tags[1] \in {"/", "wu", "no_tag"} THEN <<>> ELSE tags
    IN  [result |-> result,
         tags   |-> IF result = "lowq" /\ tags2 = <<>>
                    THEN extract_tags_from_content(r) ELSE tags2]

\* a parser that keeps the tags of a normal verdict (the faulty variant the
\* normal-has-no-tags property must tell from TagsFor)
TagsKept(r, result) == CleanTags(r, result, FirstTags(r))

\* step 2 of parse_audit_result: a normal verdict takes no tags
TagsFor(r, result) ==
    CleanTags(r, result, IF result = "normal" THEN <<>> ELSE FirstTags(r))

parse_audit_result(r) ==
    IF r.null THEN [result |-> "failed", tags |-> <<>>]
    ELSE IF ResultMatch(r, 1) # None \/ ResultMatch(r, 2) # None \/ ResultMatch(r, 3) # None
         THEN TagsFor(r, FirstResult(r))
         ELSE TagsFor(r, KeywordResult(r))

\* the strategy of parse_audit_result_push that matches verdict and tags, or 0
PushStrategy(r) ==
    IF ResultMatch(r, 1) # None /\ TagMatch(r, 1) THEN 1
    ELSE IF ResultMatch(r, 2) # None /\ TagMatch(r, 2) THEN 2
    ELSE IF ResultMatch(r, 3) # None /\ TagMatch(r, 3) THEN 3
    ELSE 0

parse_audit_result_push(r) ==
    IF r.null THEN [result |-> "parse_failed", tags |-> <<>>]
    ELSE LET i      == PushStrategy(r)
             result == IF i # 0 THEN ResultMatch(r, i) ELSE KeywordResult(r)
             tags   == IF i # 0 THEN parse_tags(r.tText) ELSE <<>>
         IN  [result |-> result,
              tags   |-> IF result = "normal" THEN <<>> ELSE tags]

\* the inline parser of process_cover (the reply is not null here)
ParseCover(r) ==
    LET viol == Contains(r, "violation") \/ Contains(r, "noncompliant")
    IN  IF Contains(r, "normal") /\ ~viol THEN [result |-> "normal", tags |-> <<>>]
        ELSE IF viol
             THEN [result |-> "violation",
                   tags   |-> IF r.tLabel # None THEN Filter(r.tText, {"/"}) ELSE <<>>]
        ELSE [result |-> "normal", tags |-> <<>>]

\* ------------------------------------------------------------ clients
(* One outbound call of an item.  The endpoint's answer to one attempt:     *)
(*   "ok" 200, "s503" 5xx, "s501conv" 501 whose body names conversation_id, *)
(*   "s4xx" another 4xx, "s429" 429, "timeout", "connerr".                  *)
Responses == {"ok", "s503", "s501conv", "s4xx", "s429", "timeout", "connerr"}

Clients ==
    {"comment", "cover", "push", "brand", "news_extract", "news_image", "news_text"}

\* the adapters of the session of create_retry_session, in the order
\* requests keeps them (longest prefix first, first match wins): the default
\* adapters of Session() for "https://" and "http://" carry no retries, the
\* retrying adapter replaces "http://" and is mounted a second time at "https"
SessionAdapters ==
    <<[prefix |-> "https://", https |-> TRUE,  retries |-> 0],
      [prefix |-> "http://",  https |-> FALSE, retries |-> MAX_RETRIES],
      [prefix |-> "https",    https |-> TRUE,  retries |-> MAX_RETRIES]>>

\* the retries of the adapter that serves API_URL, an https:// address
AdapterRetries ==
    LET i == CHOOSE k \in 1..Len(SessionAdapters) :
                 /\ SessionAdapters[k].https
                 /\ \A j \in 1..(k - 1) : ~SessionAdapters[j].https
    IN  SessionAdapters[i].retries

\* the state of one call: retry_count, the POSTs made so far, the last sleep,
\* and the responses received (kept for the properties)
NewCall(client, reply) ==
    [client |-> client, reply |-> reply, pc |-> "try", retry_count |-> 0,
     attempts |-> 0, result |-> None, tags |-> <<>>, slept |-> 0, resps |-> <<>>]

NoCall == [NewCall(None, PlainReply) EXCEPT !.pc = "idle"]

\* what the client returns when its retries are exhausted
FailureResult(client) ==
    CASE client = "news_image"   -> [result |-> "failed", tags |-> <<"image_audit_failed">>]
      [] client = "news_text"    -> [result |-> "failed", tags |-> <<"text_audit_failed">>]
      [] client = "news_extract" -> [result |-> "extract_failed", tags |-> <<>>]
      [] OTHER                   -> [result |-> "failed", tags |-> <<>>]

\* what the client returns on a 200
ParseReply(client, r) ==
    CASE client = "cover"        -> ParseCover(r)
      [] client = "push"         -> parse_audit_result_push(r)
      [] client = "news_extract" -> [result |-> "extracted", tags |-> <<>>]
      [] OTHER                   -> parse_audit_result(r)

Pow2(k) == IF k = 0 THEN 1 ELSE IF k = 1 THEN 2 ELSE IF k = 2 THEN 4 ELSE 8

\* the sleep before the next attempt after a failed one, retry_count already raised
Backoff(client, resp, retry_count) ==
    IF resp = "timeout" /\ client \in {"comment", "cover", "brand"}
    THEN Pow2(retry_count) ELSE 2

Returned(c, res) == [c EXCEPT !.pc = "returned", !.result = res.result, !.tags = res.tags]

\* an except branch of the retry loop: count, give up at max_retries, else sleep
Retry(c, resp) ==
    LET rc == c.retry_count + 1
    IN  IF rc >= max_retries
        THEN Returned([c EXCEPT !.retry_count = rc], FailureResult(c.client))
        ELSE [c EXCEPT !.retry_count = rc, !.slept = Backoff(c.client, resp, rc)]

\* one pass of the while loop of process_comment, process_cover,
\* process_brand_content, extract_news_info, audit_news_image_fixed and
\* audit_news_text_fixed: one POST and the handling of its outcome
LoopAttempt(c, resp) ==
    LET c1 == [c EXCEPT !.attempts = @ + 1, !.resps = Append(@, resp)]
    IN  CASE resp = "ok" ->
                 IF c.client = "cover" /\ c.reply.null THEN Retry(c1, resp)
                 ELSE Returned(c1, ParseReply(c.client, c.reply))
          [] resp = "s501conv" ->
                 \* retry_count += 1; sleep(2); continue; the loop ends at max_retries
                 IF c.retry_count + 1 >= max_retries
                 THEN Returned([c1 EXCEPT !.retry_count = @ + 1, !.slept = 2],
                               FailureResult(c.client))
                 ELSE [c1 EXCEPT !.retry_count = @ + 1, !.slept = 2]
          [] OTHER -> Retry(c1, resp)

\* audit_content: one session.post, which the adapter repeats by itself on a
\* 5xx of its status_forcelist, on a timeout and on a connection error
PushAttempt(c, resp) ==
    LET c1 == [c EXCEPT !.attempts = @ + 1, !.resps = Append(@, resp)]
    IN  CASE resp = "ok" -> Returned(c1, parse_audit_result_push(c.reply))
          [] resp \in {"s503", "timeout", "connerr"} /\ c.retry_count < AdapterRetries ->
                 [c1 EXCEPT !.retry_count = @ + 1, !.slept = Pow2(c.retry_count)]
          [] resp = "timeout" -> Returned(c1, [result |-> "timeout", tags |-> <<>>])
          [] OTHER -> Returned(c1, [result |-> "service_error", tags |-> <<>>])

ClientStep(c, resp) ==
    IF c.client = "push" THEN PushAttempt(c, resp) ELSE LoopAttempt(c, resp)

RECURSIVE RunCall(_, _)
\* the whole call when the endpoint answers every attempt with resp
RunCall(c, resp) == IF c.pc # "try" THEN c ELSE RunCall(ClientStep(c, resp), resp)

\* the pair the client hands back
Outcome(c) == [result |-> c.result, tags |-> c.tags]

CallResult(client, resp, reply) == Outcome(RunCall(NewCall(client, reply), resp))

\* ------------------------------------------------------------ news items
aggregate_news_results(all_results, all_tags) ==
    LET filtered_tags == Filter(all_tags, {"small_image"})
        results       == SeqToSet(all_results)
        final_result  ==
            IF "violation" \in results THEN "violation"
            ELSE IF "failed" \in results THEN "failed"
            ELSE IF results \subseteq {"no_image", "text_extract_failed"} THEN "no_content"
            ELSE "normal"
        final_tags    == SetToSeq(SeqToSet(filtered_tags) \ {"/", "no_tag"})
    IN  [result |-> final_result,
         tags   |-> IF final_tags = <<>> THEN <<"/">> ELSE final_tags]

(* What one news item meets:                                                *)
(*   extract  the endpoint's answer to every attempt of extract_news_info   *)
(*   images   "none": no image URL, "one": one URL, "bad": the parsed       *)
(*            "images" value is not iterable (a number)                     *)
(*   size_ok  check_image_size lets the image through                       *)
(*   img, txt the endpoint's answers and reply for the image / text audit   *)
(*   content  "ok": 20 characters or more before the first stop keyword,    *)
(*            "short": fewer                                                *)
\* what extract_news_info hands back: the images and whether there is a text
\* (its failure value has no image and an empty text)
extract_news_info(e) ==
    IF CallResult("news_extract", e.extract, PlainReply).result = "extract_failed"
    THEN [images |-> "none", text |-> FALSE]
    ELSE [images |-> e.images, text |-> TRUE]

\* the value process_news_item_complete returns
NewsReturn(final, msgs) ==
    [raised |-> FALSE, result |-> final.result, tags |-> final.tags, msgs |-> msgs]

\* the image part and the text part of process_news_item_complete.  info: the
\* value of extract_news_info; imgRes, txtRes: the values of the two audits
NewsItem(e, info, imgRes, txtRes) ==
    LET audited == info.images = "one" /\ e.size_ok
        usable  == info.text /\ e.content = "ok"
        hit     == audited /\ imgRes.result = "violation"
    IN  IF info.images = "bad"
        THEN [raised |-> TRUE, result |-> None, tags |-> <<>>, msgs |-> 1]
        ELSE NewsReturn(
               aggregate_news_results(
                   (IF info.images = "none" THEN <<"no_image">>
                    ELSE IF hit THEN <<"violation">> ELSE <<>>)
                   \o (IF usable THEN <<txtRes.result>> ELSE <<"text_extract_failed">>),
                   (IF info.images = "none" THEN <<"no_image">>
                    ELSE IF hit THEN imgRes.tags ELSE <<>>)
                   \o (IF usable THEN txtRes.tags ELSE <<"text_extract_failed">>)),
               1 + (IF audited THEN 1 ELSE 0) + (IF usable THEN 1 ELSE 0))

process_news_item_complete(e) ==
    NewsItem(e, extract_news_info(e),
             CallResult("news_image", e.img.resp, e.img.reply),
             CallResult("news_text", e.txt.resp, e.txt.reply))

\* ------------------------------------------------------------ one row
\* the special case of process_comment_file and process_cover_file:
\* no tags, or the slash alone, makes the verdict normal
NormalizeEmpty(res) ==
    IF Len(res.tags) = 0 \/ (Len(res.tags) = 1 /\ res.tags[1] = "/")
    THEN [result |-> "normal", tags |-> <<>>] ELSE res

\* the body of the row loop from the call of the item processor to the values
\* it records: verdict, tags, messages logged on the way, or an exception
RowValues(out) == [raised |-> FALSE, result |-> out.result, tags |-> out.tags, msgs |-> 0]

ProcessRow(flow, e) ==
    IF flow = "news" THEN process_news_item_complete(e)
    ELSE IF flow \in {"comment", "cover"}
    THEN RowValues(NormalizeEmpty(CallResult(flow, e.resp, e.reply)))
    ELSE RowValues(CallResult(flow, e.resp, e.reply))

\* the tag cell of the output table
TagCell(flow, tags) ==
    IF flow = "news" THEN tags ELSE IF tags = <<>> THEN <<"/">> ELSE tags

\* ------------------------------------------------------------ datasets
\* an uploaded spreadsheet of MaxRows raw rows: whether it has the required
\* column(s), and for each raw row whether the cleaning keeps it (TRUE) or
\* drops it as blank
RowSeqs == [1..MaxRows -> BOOLEAN]

Datasets ==
    {[hasColumn |-> TRUE, rows |-> r] : r \in RowSeqs}
        \cup {[hasColumn |-> FALSE, rows |-> <<>>]}

\* spreadsheets of LongRows raw rows of which the cleaning drops at most one
LongDatasets ==
    {[hasColumn |-> TRUE, rows |-> [i \in 1..LongRows |-> i # blank]] :
        blank \in 0..LongRows}

NoFile == [exists |-> FALSE, hasColumn |-> FALSE, rows |-> <<>>]

RECURSIVE Cleaned(_, _)
\* the index labels of the cleaned frame: dropna and the blank filter keep the
\* labels pd.read_excel gave the raw rows (0, 1, 2, ...)
Cleaned(rows, i) ==
    IF i > Len(rows) THEN <<>>
    ELSE (IF rows[i] THEN <<i - 1>> ELSE <<>>) \o Cleaned(rows, i + 1)

\* ------------------------------------------------------------ job record
Ids == 0..MaxCmds

\* a dict of counters: a function whose domain is the set of its keys
EmptyDict == [k \in {} |-> 0]

Bump(d, k) ==
    IF k \in DOMAIN d THEN [d EXCEPT ![k] = @ + 1]
    ELSE [x \in (DOMAIN d) \cup {k} |-> IF x = k THEN 1 ELSE d[x]]

RECURSIVE BumpAll(_, _)
BumpAll(d, ks) == IF ks = <<>> THEN d ELSE BumpAll(Bump(d, Head(ks)), Tail(ks))

RECURSIVE SumOver(_, _)
SumOver(d, ks) ==
    IF ks = {} THEN 0
    ELSE LET k == CHOOSE x \in ks : TRUE IN d[k] + SumOver(d, ks \ {k})

DictSum(d) == SumOver(d, DOMAIN d)

\* the record get_task_id, upload_file and the end command create; the message
\* log 'history' is kept by its length (entries are only ever appended)
NewTask(id) ==
    [id |-> id, status |-> "idle", progress |-> 0, total |-> 0, processed |-> 0,
     paused |-> FALSE, results |-> EmptyDict, tags |-> EmptyDict, history |-> 0]

\* update_task_status(..., message=...) n times
LogMsg(t, n) == [t EXCEPT !.history = @ + n]

update_statistics(t, result, tags) ==
    [t EXCEPT !.results = Bump(@, result), !.tags = BumpAll(@, tags)]

\* ------------------------------------------------------------ workers
WorkerIds == 1..MaxWorkers

EmptyCell == [result |-> "", cell |-> <<>>, counted |-> <<>>, unjudged |-> FALSE]

\* a worker slot without a thread
OffWorker ==
    [pc |-> "off", fileId |-> 0, keysOk |-> TRUE, df |-> <<>>, total_rows |-> 0,
     pos |-> 0, table |-> EmptyDict, started |-> <<>>, exhausted |-> FALSE,
     raised |-> FALSE, resumed |-> FALSE]

BatchSize(flow) == IF flow = "news" THEN 5 ELSE 10

\* a loop that passes over a row (the faulty variant the row-order property
\* must tell from NextPos)
SkipOne(pos) == pos + 2

\* the position of the row the for loop yields after the row at pos
NextPos(pos) == pos + 1

\* the for loop moves on: the next row, or past the last one
Advance(flow, w) ==
    IF NextPos(w.pos) > Len(w.df)
    THEN [w EXCEPT !.pos = NextPos(w.pos), !.pc = "final", !.exhausted = TRUE]
    ELSE [w EXCEPT !.pos = NextPos(w.pos), !.pc = "check"]

\* progress = int((processed / total_rows) * 100)
Percent(processed, total_rows) == (processed * 100) \div total_rows

\* the progress message is logged for the first row, the last row and every
\* tenth of the rows
LogsProgress(processed, total_rows) ==
    LET step == IF total_rows \div 10 > 1 THEN total_rows \div 10 ELSE 1
    IN  processed = 1 \/ processed % step = 0 \/ processed = total_rows

\* "更新进度": processed = index + 1 and the progress derived from it
UpdateProgress(t, w) ==
    LET processed == w.df[w.pos] + 1
    IN  LogMsg([t EXCEPT !.progress = Percent(processed, w.total_rows),
                         !.processed = processed],
               IF LogsProgress(processed, w.total_rows) THEN 1 ELSE 0)

\* ------------------------------------------------------------ inputs
\* （1）审核结果：正常 （2）低质标签：/
ReplyNormal ==
    [PlainReply EXCEPT !.numV = TRUE, !.vLabel = "long", !.vWord = "normal",
                       !.numT = TRUE, !.tLabel = "lowq_tag", !.tText = <<"/">>]

\* 审核结果：低质 低质标签：广告
ReplyLowq ==
    [PlainReply EXCEPT !.vLabel = "long", !.vWord = "lowq",
                       !.tLabel = "lowq_tag", !.tText = <<"ad">>]

\* 结果:违规 标签:色情
ReplyViolation ==
    [PlainReply EXCEPT !.vLabel = "short", !.vWord = "violation",
                       !.tLabel = "tag", !.tText = <<"porn">>]

RowReplies == {ReplyNormal, ReplyViolation, PlainReply}

OkCall(r) == [resp |-> "ok", reply |-> r]

\* a news page with no image and a usable text that the text audit finds normal
NewsPlain ==
    [extract |-> "ok", images |-> "none", size_ok |-> TRUE, img |-> OkCall(ReplyNormal),
     content |-> "ok", txt |-> OkCall(ReplyNormal)]

NewsEnvs ==
    {NewsPlain,
     [NewsPlain EXCEPT !.extract = "s503"],
     [NewsPlain EXCEPT !.images = "one", !.img = OkCall(ReplyViolation)],
     [NewsPlain EXCEPT !.images = "bad"]}

\* what the endpoint does for one row
RowEnvs(flow) ==
    IF flow = "news" THEN NewsEnvs
    ELSE {OkCall(r) : r \in RowReplies} \cup {[resp |-> "s503", reply |-> PlainReply]}

\* the rows of the job specification: one judged normal, one judged a
\* violation, and for news one whose page makes the item processor raise
JobEnvs(flow) ==
    IF flow = "news"
    THEN {NewsPlain, [NewsPlain EXCEPT !.images = "one", !.img = OkCall(ReplyViolation)],
          [NewsPlain EXCEPT !.images = "bad"]}
    ELSE {OkCall(ReplyNormal), OkCall(ReplyViolation)}

\* ProcessRow tabulated over the rows above
RowOutcome ==
    [flow \in AuditTypes |->
        [e \in RowEnvs(flow) \cup JobEnvs(flow) |-> ProcessRow(flow, e)]]

\* the threads that can be inside process_cover
Callers == 1..MaxCallers

\* ------------------------------------------------------------ state
VARIABLES
    auditType,      \* the audit type of the job
    task,           \* task_status[audit_type][session_id]
    files,          \* the upload folder: task id -> the dataset saved under it
    workers,        \* the worker threads
    history_index,  \* the history store: task id -> records written for it
    result_files,   \* the result folder: task id -> the table last written
    cmds,           \* control commands issued so far
    ended,          \* the last command issued was the end command
    cl,             \* the item call in progress (client specification)
    pr,             \* the last application of a parser or of the news item processor
    gs,             \* the statistics query in progress (statement by statement)
    conv,           \* the conversation_id of the push job and what the calls sent
    rl              \* the cover calls between their one-second sleep and their POST

vars == <<auditType, task, files, workers, history_index, result_files, cmds, ended, cl, pr, gs, conv, rl>>

jobVars == <<auditType, task, files, workers, history_index, result_files, cmds, ended>>

NoResult == [exists |-> FALSE, table |-> EmptyDict]

\* nothing has been parsed yet
NoParse ==
    [fn |-> None, reply |-> PlainReply, env |-> NewsPlain, result |-> None,
     tags |-> <<>>, raised |-> FALSE]

\* no statistics query is between two of its statements
NoQuery == [pc |-> "idle"]

\* the push record as upload_file creates it ('conversation_id': ''; the empty
\* token is 0), no run started, no call made
NoConversation == [stored |-> 0, runs |-> 0, calls |-> 0, sent |-> 0, due |-> 0, lastOk |-> 0]

\* no thread is inside process_cover; the clock counts seconds
NoCalls == [clock |-> 0, pc |-> [c \in Callers |-> "out"], wake |-> [c \in Callers |-> 0]]

Init ==
    /\ auditType \in AuditTypes
    /\ task = NewTask(0)
    /\ files = [i \in Ids |-> NoFile]
    /\ workers = [w \in WorkerIds |-> OffWorker]
    /\ history_index = [i \in Ids |-> 0]
    /\ result_files = [i \in Ids |-> NoResult]
    /\ cmds = 0
    /\ ended = FALSE
    /\ cl = NoCall
    /\ pr = NoParse
    /\ gs = NoQuery
    /\ conv = NoConversation
    /\ rl = NoCalls

\* ------------------------------------------------------------ control surface
\* POST /upload with an .xlsx file
upload_file(ds) ==
    /\ cmds < MaxCmds
    /\ task.status \notin {"processing", "done"}
    /\ files' = [files EXCEPT ![task.id] =
                     [exists |-> TRUE, hasColumn |-> ds.hasColumn, rows |-> ds.rows]]
    /\ task' = LogMsg([task EXCEPT !.status = "idle", !.progress = 0], 1)
    /\ cmds' = cmds + 1
    /\ ended' = FALSE
    /\ UNCHANGED <<auditType, workers, history_index, result_files, cl, pr, gs, conv, rl>>

\* POST /run; keys: the api_key splits into the three keys news needs
run_task(keys) ==
    /\ cmds < MaxCmds
    /\ files[task.id].exists
    /\ \E w \in WorkerIds :
          /\ workers[w].pc = "off"
          /\ \A v \in 1..(w - 1) : workers[v].pc # "off"
          /\ workers' = [workers EXCEPT ![w] =
                 [OffWorker EXCEPT !.pc = "read", !.fileId = task.id, !.keysOk = keys]]
    /\ task' = LogMsg([task EXCEPT !.status = "processing", !.progress = 0], 1)
    /\ cmds' = cmds + 1
    /\ ended' = FALSE
    /\ UNCHANGED <<auditType, files, history_index, result_files, cl, pr, gs, conv, rl>>

\* POST /control, action = pause
control_pause ==
    /\ cmds < MaxCmds
    /\ task' = LogMsg([task EXCEPT !.paused = TRUE], 1)
    /\ cmds' = cmds + 1
    /\ ended' = FALSE
    /\ UNCHANGED <<auditType, files, workers, history_index, result_files, cl, pr, gs, conv, rl>>

\* POST /control, action = resume
control_resume ==
    /\ cmds < MaxCmds
    /\ task' = LogMsg([task EXCEPT !.paused = FALSE], 1)
    /\ cmds' = cmds + 1
    /\ ended' = FALSE
    /\ UNCHANGED <<auditType, files, workers, history_index, result_files, cl, pr, gs, conv, rl>>

\* a finish command that ends the worker threads at once (the faulty variant
\* the cooperative-stop property must tell from control_finish)
control_finish_now ==
    /\ cmds < MaxCmds
    /\ task' = LogMsg([task EXCEPT !.status = "done"], 1)
    /\ workers' = [w \in WorkerIds |-> OffWorker]
    /\ cmds' = cmds + 1
    /\ ended' = FALSE
    /\ UNCHANGED <<auditType, files, history_index, result_files, cl, pr, gs, conv, rl>>

\* POST /control, action = finish
control_finish ==
    /\ cmds < MaxCmds
    /\ task' = LogMsg([task EXCEPT !.status = "done"], 1)
    /\ cmds' = cmds + 1
    /\ ended' = FALSE
    /\ UNCHANGED <<auditType, files, workers, history_index, result_files, cl, pr, gs, conv, rl>>

\* POST /control, action = end: a fresh record under a fresh id
control_end ==
    /\ cmds < MaxCmds
    /\ task' = NewTask(task.id + 1)
    /\ cmds' = cmds + 1
    /\ ended' = TRUE
    /\ UNCHANGED <<auditType, files, workers, history_index, result_files, cl, pr, gs, conv, rl>>

\* GET /statistics/<audit_type>: empty dicts are filled in place
get_statistics ==
    /\ cmds < MaxCmds
    /\ cmds' = cmds + 1
    /\ task' = [task EXCEPT
                   !.results = IF DOMAIN @ = {} THEN [k \in {"no_data"} |-> 0] ELSE @,
                   !.tags    = IF DOMAIN @ = {} THEN [k \in {"no_tag"} |-> 0] ELSE @]
    /\ ended' = FALSE
    /\ UNCHANGED <<auditType, files, workers, history_index, result_files, cl, pr, gs, conv, rl>>

\* GET /status: the record of the session is read and returned
get_status ==
    /\ cmds < MaxCmds
    /\ cmds' = cmds + 1
    /\ UNCHANGED <<auditType, task, files, workers, history_index, result_files, ended, cl, pr, gs, conv, rl>>

\* ------------------------------------------------------------ worker threads
Exit(w) == workers' = [workers EXCEPT ![w] = OffWorker]

\* add_to_history: one more record under the id the session has now
add_to_history(h, id) == [h EXCEPT ![id] = @ + 1]

\* df.to_excel(get_result_path(...)): the table under the id the session has now
to_excel(rf, id, table) == [rf EXCEPT ![id] = [exists |-> TRUE, table |-> table]]

\* the outer except of process_*_file: error status, then a history record
OuterExcept(w, t) ==
    /\ task' = LogMsg([t EXCEPT !.status = "error"], 1)
    /\ history_index' = add_to_history(history_index, t.id)
    /\ Exit(w)

\* a head of process_*_file without the column check (the faulty variant the
\* setup-error property must tell from WRead)
WReadNoCheck(w) ==
    LET me   == workers[w]
        file == files[me.fileId]
        df   == Cleaned(file.rows, 1)
    IN  /\ me.pc = "read"
        /\ IF auditType = "news" /\ ~me.keysOk
           THEN /\ task' = LogMsg([task EXCEPT !.status = "error"], 1)
                /\ Exit(w)
           ELSE /\ task' = LogMsg([task EXCEPT !.total = Len(df)], 3)
                /\ workers' = [workers EXCEPT ![w] =
                       Advance(auditType,
                               [me EXCEPT !.df = df, !.total_rows = Len(df),
                                          !.table = [l \in SeqToSet(df) |-> EmptyCell]])]
        /\ UNCHANGED <<auditType, files, history_index, result_files, cmds, ended, cl, pr, gs, conv, rl>>

\* the head of process_*_file: key check (news), read, column check, cleaning
WRead(w) ==
    LET me   == workers[w]
        file == files[me.fileId]
        df   == Cleaned(file.rows, 1)
    IN  /\ me.pc = "read"
        /\ IF auditType = "news" /\ ~me.keysOk
           THEN /\ task' = LogMsg([task EXCEPT !.status = "error"], 1)
                /\ Exit(w)
           ELSE IF ~file.hasColumn
           THEN /\ task' = LogMsg([task EXCEPT !.status = "error"], 2)
                /\ Exit(w)
           ELSE /\ task' = LogMsg([task EXCEPT !.total = Len(df)], 3)
                /\ workers' = [workers EXCEPT ![w] =
                       Advance(auditType,
                               [me EXCEPT !.df = df, !.total_rows = Len(df),
                                          !.table = [l \in SeqToSet(df) |-> EmptyCell]])]
        /\ UNCHANGED <<auditType, files, history_index, result_files, cmds, ended, cl, pr, gs, conv, rl>>

\* the row is taken up: progress is published, the call is about to be made
TakeRow(me) == [me EXCEPT !.pc = "call", !.started = Append(@, me.df[me.pos])]

BeginRow(w) ==
    /\ task' = UpdateProgress(task, workers[w])
    /\ workers' = [workers EXCEPT ![w] = TakeRow(@)]

\* the head of an iteration.  comment, cover, push and brand test the pause
\* flag and then the status; news tests the status and then the pause flag
WCheck(w) ==
    /\ workers[w].pc = "check"
    /\ IF auditType = "news"
       THEN IF task.status # "processing"
            THEN /\ workers' = [workers EXCEPT ![w].pc = "final"]
                 /\ UNCHANGED task
            ELSE IF task.paused
            THEN /\ workers' = [workers EXCEPT ![w].pc = "sleep"]
                 /\ UNCHANGED task
            ELSE BeginRow(w)
       ELSE IF task.paused
            THEN /\ workers' = [workers EXCEPT ![w].pc = "sleep"]
                 /\ UNCHANGED task
            ELSE IF task.status # "processing"
            THEN /\ workers' = [workers EXCEPT ![w].pc = "final"]
                 /\ UNCHANGED task
            ELSE BeginRow(w)
    /\ UNCHANGED <<auditType, files, history_index, result_files, cmds, ended, cl, pr, gs, conv, rl>>

\* time.sleep(0.5) inside the pause loop, then the test for an ended job
WSleep(w) ==
    /\ workers[w].pc = "sleep"
    /\ IF task.status = "idle" THEN Exit(w)
       ELSE workers' = [workers EXCEPT ![w].pc = "wake"]
    /\ UNCHANGED <<auditType, task, files, history_index, result_files, cmds, ended, cl, pr, gs, conv, rl>>

\* the pause flag is tested again after the sleep; when it is clear, news
\* takes the row up without another look at the status, the other flows test
\* the status first
WWake(w) ==
    /\ workers[w].pc = "wake"
    /\ IF task.paused
       THEN /\ workers' = [workers EXCEPT ![w].pc = "sleep"]
            /\ UNCHANGED task
       ELSE IF auditType # "news" /\ task.status # "processing"
       THEN /\ workers' = [workers EXCEPT ![w].pc = "final"]
            /\ UNCHANGED task
       ELSE /\ task' = UpdateProgress(task, workers[w])
            /\ workers' = [workers EXCEPT ![w] = [TakeRow(@) EXCEPT !.resumed = TRUE]]
    /\ UNCHANGED <<auditType, files, history_index, result_files, cmds, ended, cl, pr, gs, conv, rl>>

\* whether the row with this label triggers the periodic save
SavesAfter(flow, label, total_rows) ==
    (label + 1) % BatchSize(flow) = 0 \/ label + 1 = total_rows

\* the cell of a row after its outcome is written and counted
RecordedCell(flow, old, result, tags, unjudged) ==
    [result |-> result, cell |-> TagCell(flow, tags), counted |-> old.counted \o tags,
     unjudged |-> unjudged]

\* the cell of a row after the except branch of the row loop
FailedCell(old) ==
    [result |-> "failed", cell |-> <<"/">>, counted |-> old.counted,
     unjudged |-> old.unjudged]

\* what the row loop does with the values of the item processor up to the
\* end of the iteration.  out: what the item processor does; io1: the periodic
\* to_excel succeeds; io2: the to_excel of the except branch succeeds;
\* unjudged: the item could not be judged (kept with the row for the properties)
RecordRow(w, out, io1, io2, unjudged) ==
    LET me     == workers[w]
        label  == me.df[me.pos]
        t0     == LogMsg(task, out.msgs)
        t1     == IF out.raised THEN t0 ELSE update_statistics(t0, out.result, out.tags)
        tab1   == IF out.raised THEN me.table
                  ELSE [me.table EXCEPT ![label] =
                           RecordedCell(auditType, @, out.result, out.tags, unjudged)]
        saves  == ~out.raised /\ SavesAfter(auditType, label, me.total_rows)
        failed == out.raised \/ (saves /\ ~io1)
        \* the except branch: the row becomes processing-failed and is counted
        t2     == update_statistics(LogMsg(t1, IF auditType = "news" THEN 1 ELSE 0),
                                    "failed", <<>>)
        tab2   == [tab1 EXCEPT ![label] = FailedCell(@)]
    IN  /\ me.pc = "call"
        /\ IF ~failed
           THEN /\ task' = t1
                /\ result_files' = IF saves THEN to_excel(result_files, task.id, tab1)
                                   ELSE result_files
                /\ workers' = [workers EXCEPT ![w] =
                                  Advance(auditType, [me EXCEPT !.table = tab1])]
                /\ UNCHANGED history_index
           ELSE IF io2
           THEN /\ task' = t2
                /\ result_files' = to_excel(result_files, task.id, tab2)
                /\ workers' = [workers EXCEPT ![w] =
                                  Advance(auditType,
                                          [me EXCEPT !.table = tab2, !.raised = TRUE])]
                /\ UNCHANGED history_index
           ELSE /\ OuterExcept(w, t2)
                /\ UNCHANGED result_files

\* the call of the item processor, taken as one step, and everything up to the
\* end of the iteration
WCall(w, out, io1, io2, unjudged) ==
    /\ RecordRow(w, out, io1, io2, unjudged)
    /\ UNCHANGED <<auditType, files, cmds, ended, cl, pr, gs, conv, rl>>

\* after the loop: the final save, status done, the history record
WFinal(w, io) ==
    /\ workers[w].pc = "final"
    /\ IF io
       THEN /\ result_files' = to_excel(result_files, task.id, workers[w].table)
            /\ task' = LogMsg([task EXCEPT !.status = "done", !.progress = 100], 1)
            /\ history_index' = add_to_history(history_index, task.id)
            /\ Exit(w)
       ELSE /\ OuterExcept(w, task)
            /\ UNCHANGED result_files
    /\ UNCHANGED <<auditType, files, cmds, ended, cl, pr, gs, conv, rl>>

\* ------------------------------------------------------------ judged or not
\* the reply gives the parser of this flow nothing to go by
Unparseable(flow, r) ==
    CASE flow = "cover" ->
             r.null \/ ~(Contains(r, "normal") \/ Contains(r, "violation")
                           \/ Contains(r, "noncompliant"))
      [] flow = "push" ->
             r.null \/ (PushStrategy(r) = 0 /\ KeywordResult(r) = "parse_failed")
      [] OTHER ->
             r.null \/ (FirstResult(r) = None /\ KeywordResult(r) = "parse_failed")

\* the item of this row could not be judged: a call ran out of retries, or
\* its reply could not be parsed
Unjudged(flow, e) ==
    IF flow = "news"
    THEN \/ e.extract # "ok"
         \/ e.images = "one" /\ e.size_ok
              /\ (e.img.resp # "ok" \/ Unparseable("news", e.img.reply))
         \/ e.content = "ok" /\ (e.txt.resp # "ok" \/ Unparseable("news", e.txt.reply))
    ELSE e.resp # "ok" \/ Unparseable(flow, e.reply)

\* ------------------------------------------------------------ item calls
\* the replies an item call can meet: the three of the rows and the JSON null
CallReplies == RowReplies \cup {[PlainReply EXCEPT !.null = TRUE]}

\* an item processor is entered: retry_count = 0, nothing sent yet
ClientCall(client, reply) ==
    /\ cl.pc \in {"idle", "returned"}
    /\ cl' = NewCall(client, reply)
    /\ UNCHANGED <<jobVars, pr, gs, conv, rl>>

\* one attempt of the call in progress, answered by resp
ClientAttempt(resp) ==
    /\ cl.pc = "try"
    /\ cl' = ClientStep(cl, resp)
    /\ UNCHANGED <<jobVars, pr, gs, conv, rl>>

\* ------------------------------------------------------------ parser inputs
\* the tag texts a reply can carry: the slash, one tag, two tags, one tag
\* named twice, the word for "none", and a slash between two tags
TagTexts ==
    {<<"/">>, <<"ad">>, <<"ad", "porn">>, <<"ad", "ad">>, <<"wu">>, <<"porn", "/", "ad">>}

\* every reply the parsers are applied to: the JSON null, and every text made
\* of a verdict part, a tag part, verdict keywords and taxonomy keywords
ParseReplies ==
    {[PlainReply EXCEPT !.null = TRUE]} \cup
    {r \in [null : {FALSE}, numV : BOOLEAN, vLabel : {None, "long", "short"},
            vWord : {"normal", "lowq", "violation", "other"}, numT : BOOLEAN,
            tLabel : {None, "lowq_tag", "viol_tag", "tag"}, tText : TagTexts,
            free : SUBSET {"normal", "lowq", "violation"},
            ftags : {{}, {"ad"}, {"porn", "ad"}}] :
        /\ r.vLabel = None => (~r.numV /\ r.vWord = "other")
        /\ r.numV => r.vLabel = "long"
        /\ r.tLabel = None => (~r.numT /\ r.tText = <<"/">>)
        /\ r.numT => r.tLabel = "lowq_tag"}

Parsed(fn, r, out) ==
    [fn |-> fn, reply |-> r, env |-> NewsPlain, result |-> out.result,
     tags |-> out.tags, raised |-> FALSE]

\* parse_audit_result(answer); its try/except lets no exception out
ParseAudit(r) ==
    /\ pr.fn = None
    /\ pr' = Parsed("parse_audit_result", r, parse_audit_result(r))
    /\ UNCHANGED <<jobVars, cl, gs, conv, rl>>

\* parse_audit_result_push(answer); its try/except lets no exception out
ParsePush(r) ==
    /\ pr.fn = None
    /\ pr' = Parsed("parse_audit_result_push", r, parse_audit_result_push(r))
    /\ UNCHANGED <<jobVars, cl, gs, conv, rl>>

\* the inline parser of process_cover, reached only with an answer
ParseCoverReply(r) ==
    /\ pr.fn = None
    /\ ~r.null
    /\ pr' = Parsed("process_cover", r, ParseCover(r))
    /\ UNCHANGED <<jobVars, cl, gs, conv, rl>>

\* ------------------------------------------------------------ news item inputs
\* what the endpoint does for one audit of a news item: a reply of RowReplies
\* at the first attempt, or a 503 at every attempt
AuditEnvs == {OkCall(r) : r \in RowReplies} \cup {[resp |-> "s503", reply |-> PlainReply]}

\* the news items: every combination of extraction, images, image size, text
\* length and the two audits
NewsItems ==
    [extract : {"ok", "s503"}, images : {"none", "one", "bad"}, size_ok : BOOLEAN,
     img : AuditEnvs, content : {"ok", "short"}, txt : AuditEnvs]

\* process_news_item_complete applied to one item
NewsApply(e, out) ==
    /\ pr' = [fn |-> "process_news_item_complete", reply |-> PlainReply, env |-> e,
              result |-> out.result, tags |-> out.tags, raised |-> out.raised]
    /\ UNCHANGED <<jobVars, cl, gs, conv, rl>>

\* ------------------------------------------------------------ statistics query, by statement
\* GET /statistics runs in a request thread beside the worker.  statistics is
\* the dict of the job record; the handler tests a counter dict and, in a
\* later statement, assigns a placeholder dict in its place
QueryTestResults ==
    /\ cmds < MaxCmds
    /\ gs.pc = "idle"
    /\ gs' = [pc |-> IF DOMAIN task.results = {} THEN "assign_results" ELSE "test_tags"]
    /\ cmds' = cmds + 1
    /\ ended' = FALSE
    /\ UNCHANGED <<auditType, task, files, workers, history_index, result_files, cl, pr, conv, rl>>

\* statistics['results'] = {'无数据': 0}
QueryAssignResults ==
    /\ gs.pc = "assign_results"
    /\ task' = [task EXCEPT !.results = [k \in {"no_data"} |-> 0]]
    /\ gs' = [pc |-> "test_tags"]
    /\ UNCHANGED <<auditType, files, workers, history_index, result_files, cmds, ended, cl, pr, conv, rl>>

QueryTestTags ==
    /\ gs.pc = "test_tags"
    /\ gs' = [pc |-> IF DOMAIN task.tags = {} THEN "assign_tags" ELSE "idle"]
    /\ UNCHANGED <<jobVars, cl, pr, conv, rl>>

\* statistics['tags'] = {'无标签': 0}, then the response
QueryAssignTags ==
    /\ gs.pc = "assign_tags"
    /\ task' = [task EXCEPT !.tags = [k \in {"no_tag"} |-> 0]]
    /\ gs' = [pc |-> "idle"]
    /\ UNCHANGED <<auditType, files, workers, history_index, result_files, cmds, ended, cl, pr, conv, rl>>

\* ------------------------------------------------------------ push conversation
(* The continuation token of the push flow: task_status['push'][session_id] *)
(* ['conversation_id'].  0 is the empty string, 1..MaxTokens the ids the    *)
(* endpoint hands out.  sent: the token of the last call; lastOk: the token *)
(* the last 200 of this run returned; due: lastOk as it was when the last   *)
(* call was made (sent, due and lastOk are kept for the properties).        *)

\* "初始化会话ID" at the head of the row loop of process_push_file: the record
\* exists (upload_file made it), so the else branch runs and sets the key
\* 'conversation', which nothing reads; 'conversation_id' stays
PushRunStart ==
    /\ conv.runs < MaxRuns
    /\ conv' = [conv EXCEPT !.runs = @ + 1, !.calls = 0, !.lastOk = 0]
    /\ UNCHANGED <<jobVars, cl, pr, gs, rl>>

\* audit_content for one row: the stored token is sent; a 200 stores the
\* conversation_id of the response (tok), anything else leaves the record
PushCall(resp, tok) ==
    /\ conv.runs > 0
    /\ conv.calls < MaxCalls
    /\ conv' = [conv EXCEPT !.calls = @ + 1,
                            !.sent = conv.stored,
                            !.due = conv.lastOk,
                            !.stored = IF resp = "ok" THEN tok ELSE @,
                            !.lastOk = IF resp = "ok" THEN tok ELSE @]
    /\ UNCHANGED <<jobVars, cl, pr, gs, rl>>

\* the end command replaces the record by one without the key
\* 'conversation_id'; .get('conversation_id', '') then reads the empty token
PushEnd ==
    /\ conv.runs > 0
    /\ conv.stored # 0
    /\ conv' = [conv EXCEPT !.stored = 0]
    /\ UNCHANGED <<jobVars, cl, pr, gs, rl>>

\* ------------------------------------------------------------ cover call pacing
(* process_cover opens with "应用速率限制": time.sleep(1), "确保请求间隔至少1秒", *)
(* and then enters its retry loop.  Each thread sleeps by itself; there is  *)
(* no state the threads share.  pc of a caller: "out" (not in               *)
(* process_cover), "sleep" (inside time.sleep(1)), "post" (its POST is      *)
(* being sent in this second).                                              *)

\* requests the pacing lets through per second
Capacity == 1

\* a thread enters process_cover and starts its sleep
CoverEnter(c) ==
    /\ rl.pc[c] = "out"
    /\ rl' = [rl EXCEPT !.pc[c] = "sleep", !.wake[c] = rl.clock + 1]
    /\ UNCHANGED <<jobVars, cl, pr, gs, conv>>

\* the sleep is over: requests.post
CoverPost(c) ==
    /\ rl.pc[c] = "sleep"
    /\ rl.clock >= rl.wake[c]
    /\ rl' = [rl EXCEPT !.pc[c] = "post"]
    /\ UNCHANGED <<jobVars, cl, pr, gs, conv>>

\* a second passes; a POST sent in the second that ends is answered and
\* process_cover returns
Tick ==
    /\ rl.clock < MaxClock
    /\ rl' = [rl EXCEPT !.clock = @ + 1,
                        !.pc = [c \in Callers |-> IF rl.pc[c] = "post" THEN "out" ELSE rl.pc[c]]]
    /\ UNCHANGED <<jobVars, cl, pr, gs, conv>>

\* ------------------------------------------------------------ a row's call, attempt by attempt
\* what the endpoint answers an attempt of a row's call with
WaitResponses == {"ok", "s503", "timeout"}

\* the worker enters the item processor for the row it has taken up
RowCallBegin(w) ==
    /\ workers[w].pc = "call"
    /\ cl.pc = "idle"
    /\ cl' = NewCall(auditType, ReplyViolation)
    /\ UNCHANGED <<jobVars, pr, gs, conv, rl>>

\* one pass of the while loop of the item processor: the POST, and after a
\* failed one the time.sleep the thread is in until the next pass
RowCallAttempt(w, resp) ==
    /\ workers[w].pc = "call"
    /\ ClientAttempt(resp)

\* the item processor returns and the row loop records what it returned
RowCallReturn(w, io1, io2) ==
    /\ cl.pc = "returned"
    /\ RecordRow(w, RowValues(NormalizeEmpty(Outcome(cl))), io1, io2,
                 cl.resps[Len(cl.resps)] # "ok" \/ Unparseable(auditType, cl.reply))
    /\ cl' = NoCall
    /\ UNCHANGED <<auditType, files, cmds, ended, pr, gs, conv, rl>>

\* the thread of a row's call is in the sleep between two attempts
InBackoff == cl.pc = "try" /\ cl.attempts > 0

\* no worker is between taking a row up and the first POST for it
NotBeforeFirstPost == \A w \in WorkerIds : workers[w].pc = "call" => cl.attempts > 0

\* ------------------------------------------------------------ specifications
\* the service: every command of the control surface, the worker threads
Next ==
    \/ \E ds \in Datasets : upload_file(ds)
    \/ \E keys \in (IF auditType = "news" THEN BOOLEAN ELSE {TRUE}) : run_task(keys)
    \/ control_pause
    \/ control_resume
    \/ control_finish
    \/ control_end
    \/ get_statistics
    \/ get_status
    \/ \E w \in WorkerIds : WRead(w)
    \/ \E w \in WorkerIds : WCheck(w)
    \/ \E w \in WorkerIds : WSleep(w)
    \/ \E w \in WorkerIds : WWake(w)
    \/ \E w \in WorkerIds : \E e \in JobEnvs(auditType) : \E io1, io2 \in BOOLEAN :
          WCall(w, RowOutcome[auditType][e], io1, io2, Unjudged(auditType, e))
    \/ \E w \in WorkerIds : \E io \in BOOLEAN : WFinal(w, io)

Spec == Init /\ [][Next]_vars

\* no worker thread is alive
Idle == \A w \in WorkerIds : workers[w].pc = "off"

\* one job at a time, started when no other runs, then only paused and resumed
NextPause ==
    \/ \E ds \in Datasets : upload_file(ds)
    \/ \E keys \in (IF auditType = "news" THEN BOOLEAN ELSE {TRUE}) :
          Idle /\ run_task(keys)
    \/ control_pause
    \/ control_resume
    \/ \E w \in WorkerIds : WRead(w)
    \/ \E w \in WorkerIds : WCheck(w)
    \/ \E w \in WorkerIds : WSleep(w)
    \/ \E w \in WorkerIds : WWake(w)
    \/ \E w \in WorkerIds : \E e \in JobEnvs(auditType) : \E io1, io2 \in BOOLEAN :
          WCall(w, RowOutcome[auditType][e], io1, io2, Unjudged(auditType, e))
    \/ \E w \in WorkerIds : \E io \in BOOLEAN : WFinal(w, io)

SpecPause == Init /\ [][NextPause]_vars

\* a job left alone, its rows meeting every behaviour of the endpoint in RowEnvs
NextRows ==
    \/ \E ds \in Datasets : upload_file(ds)
    \/ \E keys \in (IF auditType = "news" THEN BOOLEAN ELSE {TRUE}) :
          Idle /\ run_task(keys)
    \/ \E w \in WorkerIds : WRead(w)
    \/ \E w \in WorkerIds : WCheck(w)
    \/ \E w \in WorkerIds : \E e \in RowEnvs(auditType) : \E io1, io2 \in BOOLEAN :
          WCall(w, RowOutcome[auditType][e], io1, io2, Unjudged(auditType, e))
    \/ \E w \in WorkerIds : \E io \in BOOLEAN : WFinal(w, io)

SpecRows == Init /\ [][NextRows]_vars

\* the item calls alone, every attempt answered by any response
NextClient ==
    \/ \E client \in Clients : \E reply \in CallReplies : ClientCall(client, reply)
    \/ \E resp \in Responses : ClientAttempt(resp)

SpecClient == Init /\ [][NextClient]_vars

\* the parsers alone: one parser applied to one reply of ParseReplies (the
\* parsers keep no state from one call to the next)
InitParse == Init /\ auditType = "comment"

NextParse ==
    \/ pr.fn = None /\ \E r \in ParseReplies : ParseAudit(r)
    \/ pr.fn = None /\ \E r \in ParseReplies : ParsePush(r)
    \/ pr.fn = None /\ \E r \in ParseReplies : ParseCoverReply(r)

SpecParse == InitParse /\ [][NextParse]_vars

\* the row every item of a long dataset is: judged normal at the first attempt
BatchEnv(flow) == IF flow = "news" THEN NewsPlain ELSE OkCall(ReplyNormal)

\* one job over a long dataset, left alone, every call and every save succeeding
NextBatch ==
    \/ \E ds \in LongDatasets : upload_file(ds)
    \/ Idle /\ run_task(TRUE)
    \/ \E w \in WorkerIds : WRead(w)
    \/ \E w \in WorkerIds : WCheck(w)
    \/ \E w \in WorkerIds :
          WCall(w, RowOutcome[auditType][BatchEnv(auditType)], TRUE, TRUE, FALSE)
    \/ \E w \in WorkerIds : WFinal(w, TRUE)

SpecBatch == Init /\ [][NextBatch]_vars

\* one job and statistics queries, the statements of a query interleaved with
\* the steps of the worker
NextRace ==
    \/ \E ds \in Datasets : upload_file(ds)
    \/ Idle /\ run_task(TRUE)
    \/ QueryTestResults
    \/ QueryAssignResults
    \/ QueryTestTags
    \/ QueryAssignTags
    \/ \E w \in WorkerIds : WRead(w)
    \/ \E w \in WorkerIds : WCheck(w)
    \/ \E w \in WorkerIds : \E e \in JobEnvs(auditType) :
          WCall(w, RowOutcome[auditType][e], TRUE, TRUE, Unjudged(auditType, e))
    \/ \E w \in WorkerIds : WFinal(w, TRUE)

SpecRace == Init /\ [][NextRace]_vars

\* the news item processor alone, applied to one item of NewsItems
InitNews == Init /\ auditType = "news"

NextNews == pr.fn = None /\ \E e \in NewsItems : NewsApply(e, process_news_item_complete(e))

SpecNews == InitNews /\ [][NextNews]_vars

\* rows whose reply carries the slash in the tag position, and one with a tag:
\* for news an item with one image judged normal and a text judged normal
TagEnvs(flow) ==
    IF flow = "news"
    THEN {NewsPlain, [NewsPlain EXCEPT !.images = "one", !.img = OkCall(ReplyNormal)]}
    ELSE {OkCall(ReplyNormal), OkCall(ReplyLowq)}

\* ProcessRow tabulated over the rows of TagEnvs
TagOutcome == [flow \in AuditTypes |-> [e \in TagEnvs(flow) |-> ProcessRow(flow, e)]]

\* one job left alone, its rows those of TagEnvs, every save succeeding
NextTags ==
    \/ \E ds \in Datasets : upload_file(ds)
    \/ Idle /\ run_task(TRUE)
    \/ \E w \in WorkerIds : WRead(w)
    \/ \E w \in WorkerIds : WCheck(w)
    \/ \E w \in WorkerIds : \E e \in TagEnvs(auditType) :
          WCall(w, TagOutcome[auditType][e], TRUE, TRUE, FALSE)
    \/ \E w \in WorkerIds : WFinal(w, TRUE)

SpecTags == Init /\ [][NextTags]_vars

\* the runs of one push session and the tokens their calls send
InitToken == Init /\ auditType = "push"

NextToken ==
    \/ PushRunStart
    \/ \E resp \in {"ok", "s501conv", "s503"} : \E tok \in 0..MaxTokens : PushCall(resp, tok)
    \/ PushEnd

SpecToken == InitToken /\ [][NextToken]_vars

\* the cover calls of concurrent threads (the workers of two cover jobs, or
\* the two workers of one job)
InitPacing == Init /\ auditType = "cover"

NextPacing ==
    \/ \E c \in Callers : CoverEnter(c)
    \/ \E c \in Callers : CoverPost(c)
    \/ Tick

SpecPacing == InitPacing /\ [][NextPacing]_vars

\* the spreadsheet of MaxRows rows none of which is blank
FullDataset == [hasColumn |-> TRUE, rows |-> [i \in 1..MaxRows |-> TRUE]]

\* one job at a time over that spreadsheet under every command of POST /control
NextControl ==
    \/ upload_file(FullDataset)
    \/ \E keys \in (IF auditType = "news" THEN BOOLEAN ELSE {TRUE}) :
          Idle /\ run_task(keys)
    \/ control_pause
    \/ control_resume
    \/ control_finish
    \/ control_end
    \/ \E w \in WorkerIds : WRead(w)
    \/ \E w \in WorkerIds : WCheck(w)
    \/ \E w \in WorkerIds : WSleep(w)
    \/ \E w \in WorkerIds : WWake(w)
    \/ \E w \in WorkerIds : \E e \in JobEnvs(auditType) : \E io1, io2 \in BOOLEAN :
          WCall(w, RowOutcome[auditType][e], io1, io2, Unjudged(auditType, e))
    \/ \E w \in WorkerIds : \E io \in BOOLEAN : WFinal(w, io)

SpecControl == Init /\ [][NextControl]_vars

\* a comment or cover job whose calls are made attempt by attempt; the
\* commands arrive between rows or while a call sleeps between two attempts
InitWait == Init /\ auditType \in {"comment", "cover"}

NextWait ==
    \/ upload_file(FullDataset)
    \/ Idle /\ run_task(TRUE)
    \/ NotBeforeFirstPost /\ control_pause
    \/ NotBeforeFirstPost /\ control_resume
    \/ NotBeforeFirstPost /\ control_end
    \/ \E w \in WorkerIds : WRead(w)
    \/ \E w \in WorkerIds : WCheck(w)
    \/ \E w \in WorkerIds : WSleep(w)
    \/ \E w \in WorkerIds : WWake(w)
    \/ \E w \in WorkerIds : RowCallBegin(w)
    \/ \E w \in WorkerIds : \E resp \in WaitResponses : RowCallAttempt(w, resp)
    \/ \E w \in WorkerIds : \E io1, io2 \in BOOLEAN : RowCallReturn(w, io1, io2)
    \/ \E w \in WorkerIds : \E io \in BOOLEAN : WFinal(w, io)

SpecWait == InitWait /\ [][NextWait]_vars

\* a job left alone whose final save succeeds, its worker thread scheduled
\* for as long as it has a step to take
NextAlone ==
    \/ \E ds \in Datasets : upload_file(ds)
    \/ \E keys \in (IF auditType = "news" THEN BOOLEAN ELSE {TRUE}) :
          Idle /\ run_task(keys)
    \/ \E w \in WorkerIds : WRead(w)
    \/ \E w \in WorkerIds : WCheck(w)
    \/ \E w \in WorkerIds : \E e \in JobEnvs(auditType) : \E io1, io2 \in BOOLEAN :
          WCall(w, RowOutcome[auditType][e], io1, io2, Unjudged(auditType, e))
    \/ \E w \in WorkerIds : WFinal(w, TRUE)

\* a step of a worker thread of such a job
WorkerStep ==
    \E w \in WorkerIds :
        \/ WRead(w)
        \/ WCheck(w)
        \/ \E e \in JobEnvs(auditType) : \E io1, io2 \in BOOLEAN :
              WCall(w, RowOutcome[auditType][e], io1, io2, Unjudged(auditType, e))
        \/ WFinal(w, TRUE)

SpecAlone == Init /\ [][NextAlone]_vars /\ WF_vars(WorkerStep)

\* a step of a worker thread whose calls and saves succeed
FinishWorkerStep ==
    \E w \in WorkerIds :
        \/ WRead(w)
        \/ WCheck(w)
        \/ WSleep(w)
        \/ WWake(w)
        \/ \E e \in JobEnvs(auditType) :
              WCall(w, RowOutcome[auditType][e], TRUE, TRUE, Unjudged(auditType, e))
        \/ WFinal(w, TRUE)

\* one job at a time that is paused while it is processing, finished, and
\* never resumed or ended, its worker thread scheduled for as long as it has a
\* step to take
NextFinish ==
    \/ upload_file(FullDataset)
    \/ Idle /\ run_task(TRUE)
    \/ task.status = "processing" /\ control_pause
    \/ control_finish
    \/ FinishWorkerStep

SpecFinish == Init /\ [][NextFinish]_vars /\ WF_vars(FinishWorkerStep)

\* the service after the spreadsheet of the session has been uploaded
InitUploaded ==
    /\ auditType \in AuditTypes
    /\ task = LogMsg(NewTask(0), 1)
    /\ files = [i \in Ids |-> IF i = 0
                              THEN [exists |-> TRUE, hasColumn |-> TRUE,
                                    rows |-> FullDataset.rows]
                              ELSE NoFile]
    /\ workers = [w \in WorkerIds |-> OffWorker]
    /\ history_index = [i \in Ids |-> 0]
    /\ result_files = [i \in Ids |-> NoResult]
    /\ cmds = 0
    /\ ended = FALSE
    /\ cl = NoCall
    /\ pr = NoParse
    /\ gs = NoQuery
    /\ conv = NoConversation
    /\ rl = NoCalls

\* one job at a time over the uploaded spreadsheet under every command of
\* POST /control
SpecResume == InitUploaded /\ [][NextControl]_vars

\* ------------------------------------------------------------ properties
Statuses == {"idle", "processing", "done", "error"}

\* the verdicts that say an item could not be judged
FailureVerdicts == {"failed", "parse_failed", "timeout", "service_error"}

IsPrefix(s, t) == Len(s) <= Len(t) /\ s = SubSeq(t, 1, Len(s))

\* C1: whatever pause and resume commands arrive during a job, the worker
\* takes up the rows of the cleaned dataset in their order, none twice and
\* none passed over, and once the loop has run out it has taken up all of them
C1_RowsInOrderOnce ==
    \A w \in WorkerIds :
        /\ IsPrefix(workers[w].started, workers[w].df)
        /\ workers[w].exhausted => workers[w].started = workers[w].df

\* a worker that was paused, woke up on resume and finished a full dataset
C1_Witness ==
    \E w \in WorkerIds :
        /\ workers[w].exhausted
        /\ workers[w].resumed
        /\ Len(workers[w].df) = MaxRows

\* C2: while the end command is the last command issued, the record is the
\* reset one: status idle, progress 0, processed 0, no counts, empty log
C2_ResetAfterEnd == ended => task = NewTask(task.id)

\* C3: between rows the verdict counts add up to processedItems
C3_CountsSumToProcessed ==
    (\A w \in WorkerIds : workers[w].pc # "call")
        => DictSum(task.results) = task.processed

\* round(p / t * 100) of Python: to the nearest integer, a tie to the even one
Round100(p, t) ==
    LET q == (p * 100) \div t
        r == (p * 100) % t
    IN  IF 2 * r > t \/ (2 * r = t /\ q % 2 = 1) THEN q + 1 ELSE q

\* C4: with totalItems > 0, processedItems <= totalItems and progress is the
\* rounded percentage, so within 0..100
C4_ProgressIsPercentage ==
    task.total > 0 =>
        /\ task.processed <= task.total
        /\ task.progress = Round100(task.processed, task.total)
        /\ task.progress \in 0..100

\* C5: a record whose status is done or error changes in no field until the
\* end command replaces it (the end command gives the record a new id)
C5_DoneIsImmutable ==
    [][(task.status \in {"done", "error"} /\ task'.id = task.id) => task' = task]_vars

\* C6: a recorded row whose item could not be judged carries a failure verdict
C6_UnjudgedRowFails ==
    \A w \in WorkerIds : \A l \in DOMAIN workers[w].table :
        (workers[w].table[l].unjudged /\ workers[w].table[l].result # "")
            => workers[w].table[l].result \in FailureVerdicts

\* C7: a worker that is in the middle of a row goes on to the next row (or
\* past the last one), and the step does not put the job into error
C7_RowFailureContained ==
    [][\A w \in WorkerIds :
          (workers[w].pc = "call" /\ workers'[w].pc # "call")
              => /\ workers'[w].pc \in {"check", "final"}
                 /\ (task.status # "error" => task'.status # "error")]_vars

\* C8: a call whose every attempt was answered 503 has made exactly
\* MAX_RETRIES attempts and has returned a failure value
C8_ThreeAttemptsOn503 ==
    (/\ cl.pc = "returned"
     /\ cl.resps # <<>>
     /\ \A i \in DOMAIN cl.resps : cl.resps[i] = "s503")
        => /\ cl.attempts = MAX_RETRIES
           /\ cl.result \in FailureVerdicts \cup {"extract_failed"}

\* the status changes the specification lists
ListedTransitions ==
    {<<"idle", "processing">>, <<"processing", "paused">>, <<"paused", "processing">>,
     <<"processing", "done">>, <<"processing", "idle">>}
        \cup {<<s, "error">> : s \in Statuses \cup {"paused"}}

\* C9: every change of the status is one of the listed transitions
C9_OnlyListedTransitions ==
    [][task'.status # task.status
          => <<task.status, task'.status>> \in ListedTransitions]_vars

\* C10: a row recorded with verdict normal has no tags: nothing of it went
\* into the tag counts and its tag cell holds the slash alone
C10_NormalHasNoTags ==
    \A w \in WorkerIds : \A l \in DOMAIN workers[w].table :
        workers[w].table[l].result = "normal"
            => /\ workers[w].table[l].counted = <<>>
               /\ workers[w].table[l].cell = <<"/">>

\* ------------------------------------------------------------ parser properties
ParserFns == {"parse_audit_result", "parse_audit_result_push"}

\* the verdicts of the closed set
ClosedVerdicts == {"normal", "lowq", "violation", "parse_failed"}

\* C11: the response parser returns without raising, its verdict is one of
\* normal, low-quality, violation, parse-failed, and a reply it cannot read
\* (the JSON null) gives parse-failed with no tags
C11_ParserTotalClosed ==
    pr.fn \in ParserFns =>
        /\ ~pr.raised
        /\ pr.result \in ClosedVerdicts
        /\ pr.reply.null => (pr.result = "parse_failed" /\ pr.tags = <<>>)

\* C12: whenever a parser's verdict is normal its tag list is empty
C12_NormalVerdictNoTags ==
    (pr.fn \in ParserFns \cup {"process_cover"} /\ pr.result = "normal")
        => pr.tags = <<>>

\* a reply judged normal whose tag text names a tag
C12_Witness ==
    /\ pr.fn = "parse_audit_result"
    /\ pr.result = "normal"
    /\ pr.reply.tLabel # None
    /\ parse_tags(pr.reply.tText) # <<>>

RECURSIVE Dedup(_)
\* s without the later occurrences of its elements
Dedup(s) ==
    IF s = <<>> THEN <<>> ELSE <<Head(s)>> \o Dedup(Filter(Tail(s), {Head(s)}))

\* C13: the tag list holds no tag twice, and the tags taken from the tag text
\* stand in the order of their first occurrence there
C13_TagsDedupedInOrder ==
    pr.fn \in ParserFns =>
        /\ pr.tags = Dedup(pr.tags)
        /\ SeqToSet(pr.tags) \subseteq SeqToSet(pr.reply.tText)
              => pr.tags = Dedup(Filter(pr.reply.tText,
                                        SeqToSet(pr.reply.tText) \ SeqToSet(pr.tags)))

\* the verdict the keyword fallback is to give, from the words of the claim
KeywordVerdict(r) ==
    IF Contains(r, "violation") \/ Contains(r, "lowq") THEN "lowq"
    ELSE IF Contains(r, "normal") THEN "normal"
    ELSE "parse_failed"

\* C14: when no strategy yields a verdict, the verdict is the one of the
\* keyword fallback, and parse-failed comes with an empty tag list
C14_KeywordFallback ==
    (/\ pr.fn = "parse_audit_result"
     /\ ~pr.reply.null
     /\ \A i \in 1..3 : ResultMatch(pr.reply, i) = None)
        => /\ pr.result = KeywordVerdict(pr.reply)
           /\ pr.result = "parse_failed" => pr.tags = <<>>

\* the rows of worker w whose outcome is in the frame but not in the result
\* file as it was last written
Unsaved(w) ==
    {l \in DOMAIN workers[w].table :
        /\ workers[w].table[l].result # ""
        /\ \/ ~result_files[task.id].exists
           \/ l \notin DOMAIN result_files[task.id].table
           \/ result_files[task.id].table[l] # workers[w].table[l]}

\* C15: at every moment of a running job fewer rows than the batch size (10;
\* 5 for news) have a recorded outcome that the result file does not hold yet
C15_UnsavedBelowBatch ==
    \A w \in WorkerIds :
        workers[w].pc # "off" => Cardinality(Unsaved(w)) < BatchSize(auditType)

\* C16: the history store never holds more than one completion record for
\* the same job id, whatever the sequence of start, finish, end and re-start
C16_OneRecordPerId == \A i \in Ids : history_index[i] <= 1

\* C17: no update of a job record is lost: while the job keeps its id, a
\* verdict count that a row outcome has raised is never lowered or removed
C17_NoLostUpdate ==
    [][task'.id = task.id =>
          \A k \in DOMAIN task.results :
              k \in DOMAIN task'.results /\ task'.results[k] >= task.results[k]]_vars

\* C18: a status query or a statistics query leaves the job record as it
\* was: status, progress, counters, verdict counts, tag counts, message log
C18_QueriesChangeNothing == [][(get_status \/ get_statistics) => task' = task]_vars

\* worker w is about to read a dataset that lacks a required column (for
\* news: with an api key of the right form)
ColumnMissing(w) ==
    /\ workers[w].pc = "read"
    /\ ~files[workers[w].fileId].hasColumn
    /\ auditType = "news" => workers[w].keysOk

SubResults(e) ==
    LET info == extract_news_info(e)
    IN  (IF info.images = "one" /\ e.size_ok
         THEN {CallResult("news_image", e.img.resp, e.img.reply).result} ELSE {})
        \cup (IF info.text /\ e.content = "ok"
              THEN {CallResult("news_text", e.txt.resp, e.txt.reply).result} ELSE {})

\* C20: the verdict of a news item is violation when a sub-result is a
\* violation; otherwise processing-failed when a sub-result failed (an audit
\* returned the failure verdict after its retries); otherwise no-content when
\* no part was there to audit; otherwise normal
C20_NewsAggregation ==
    pr.fn = "process_news_item_complete" /\ ~pr.raised =>
        pr.result = IF "violation" \in SubResults(pr.env) THEN "violation"
                    ELSE IF "failed" \in SubResults(pr.env) THEN "failed"
                    ELSE IF SubResults(pr.env) = {} THEN "no_content"
                    ELSE "normal"

\* the tags of the parts of news item e that were audited
SubTags(e) ==
    LET info == extract_news_info(e)
    IN  (IF info.images = "one" /\ e.size_ok
         THEN SeqToSet(CallResult("news_image", e.img.resp, e.img.reply).tags) ELSE {})
        \cup (IF info.text /\ e.content = "ok"
              THEN SeqToSet(CallResult("news_text", e.txt.resp, e.txt.reply).tags) ELSE {})

\* the tags that only record how the item was handled
BookkeepingTags ==
    {"no_image", "text_extract_failed", "image_failed", "text_audit_failed", "small_image"}

\* C21: the tags of a news item are the union of the sub-results' tags without
\* the bookkeeping tags, each once, and the slash alone when that union is empty
C21_NewsTagsUnion ==
    pr.fn = "process_news_item_complete" /\ ~pr.raised =>
        /\ Len(pr.tags) = Cardinality(SeqToSet(pr.tags))
        /\ SeqToSet(pr.tags) = IF SubTags(pr.env) \ BookkeepingTags = {} THEN {"/"}
                               ELSE SubTags(pr.env) \ BookkeepingTags

\* C22: the slash that stands for "no tag" is never counted: the tag counts of
\* the job have no entry for it, in any flow, after any rows
C22_SlashNeverCounted == "/" \notin DOMAIN task.tags

\* the position of the first 501 (invalid conversation_id) among the
\* responses of the call, 0 when there is none
First501(resps) ==
    IF \E i \in 1..Len(resps) : resps[i] = "s501conv"
    THEN CHOOSE i \in 1..Len(resps) :
             resps[i] = "s501conv" /\ \A j \in 1..(i - 1) : resps[j] # "s501conv"
    ELSE 0

\* C23: a 501 that names an invalid continuation token is retried and does not
\* by itself make the item fail: no call returns on the first 501 it meets
C23_Retry501 ==
    cl.pc = "returned" /\ First501(cl.resps) # 0 => Len(cl.resps) > First501(cl.resps)

\* C24: a 4xx response other than 501 and 429 ends the call at once: it is the
\* last response of its call, and the call has returned
C24_No4xxRetry ==
    \A i \in 1..Len(cl.resps) :
        cl.resps[i] = "s4xx" => i = Len(cl.resps) /\ cl.pc = "returned"

\* the worker threads that are alive
Active == {w \in WorkerIds : workers[w].pc # "off"}

\* C27: at most one worker thread is alive for the job at any time, whatever
\* the sequence of start, finish, end and start commands
C27_OneWorkerPerJob == Cardinality(Active) <= 1

\* C25: every call of a push run sends the token the most recent successful
\* call of the same run returned, and the empty token when there was none
C25_TokenOfThisRun == conv.calls > 0 => conv.sent = conv.due

\* the tokens left in this second: one per second, less the requests let
\* through in it
Tokens == Capacity - Cardinality({c \in Callers : rl.pc[c] = "post"})

\* C26: under any interleaving of concurrent callers the token count stays
\* within 0..capacity: two callers are never let through on the same token
C26_TokensWithinCapacity == Tokens \in 0..Capacity

\* a tag pattern of one of the three strategies matches the reply
AnyTagMatch(r) == TagMatch(r, 1) \/ TagMatch(r, 2) \/ TagMatch(r, 3)

\* C28: the verdict is that of the first strategy whose verdict pattern
\* matches and the tags are those of the first strategy whose tag pattern
\* matches, each chosen without regard to the other: a verdict other than
\* normal comes back with the tags parsed from the tag text
C28_VerdictAndTagsIndependent ==
    pr.fn \in ParserFns /\ ~pr.reply.null /\ FirstResult(pr.reply) # None =>
        /\ pr.result = FirstResult(pr.reply)
        /\ (pr.result # "normal" /\ AnyTagMatch(pr.reply)
                /\ parse_tags(pr.reply.tText) # <<>>)
              => pr.tags = parse_tags(pr.reply.tText)

\* C29: when the verdict of parse_audit_result is low-quality or violation and
\* no tag was parsed, the tags are those of the keyword lookup over the reply;
\* when a tag was parsed, the parsed tags are returned as they are
C29_LookupOnlyWithoutTags ==
    pr.fn = "parse_audit_result" /\ ~pr.reply.null
            /\ pr.result \in {"lowq", "violation"} =>
        pr.tags = IF FirstTags(pr.reply) = <<>>
                  THEN extract_tags_from_content(pr.reply)
                  ELSE FirstTags(pr.reply)

\* the places of a worker between two rows: the head of an iteration and the
\* pause loop
RowBoundary == {"check", "sleep", "wake"}

\* the rows the record t counts as processing-failed
FailedCount(t) == IF "failed" \in DOMAIN t.results THEN t.results["failed"] ELSE 0

\* the row worker w has taken up last has its outcome in the table
LastRowRecorded(w) ==
    /\ w.started # <<>>
    /\ w.table[w.started[Len(w.started)]].result # ""

\* C30: pause, finish and end are cooperative.  No command touches a worker
\* thread; a worker goes into the pause loop, or leaves the row loop, only
\* from a row boundary; and a row whose call has started is carried through:
\* the worker comes out of it at the next row boundary or past the last row
\* with the row's outcome in the table (the one other way out of a row is the
\* failed save of the except branch, which comes after the row was marked
\* processing-failed and counted as such, and ends the run in error)
C30_CooperativeStop ==
    [][/\ (control_pause \/ control_resume \/ control_finish \/ control_end)
              => workers' = workers
       /\ \A w \in WorkerIds :
             /\ (workers'[w].pc = "sleep" /\ workers[w].pc # "sleep")
                    => workers[w].pc \in RowBoundary
             /\ (workers[w].pc = "call" /\ workers'[w] # workers[w]) =>
                    \/ /\ workers'[w].pc \in {"check", "final"}
                       /\ LastRowRecorded(workers'[w])
                    \/ /\ workers'[w].pc = "off"
                       /\ task'.status = "error"
                       /\ FailedCount(task') > FailedCount(task)]_vars

\* a worker sits in the pause loop after a row it has carried through
C30_Witness ==
    \E w \in WorkerIds :
        /\ workers[w].pc = "sleep"
        /\ task.paused
        /\ LastRowRecorded(workers[w])

\* C31: a pause or an end issued while the worker is in a forced wait is
\* observed during that wait: the worker whose call sleeps between two
\* attempts makes the next attempt only when no pause is pending and the job
\* it works for has not been ended
C31_WaitObservesCommand ==
    [][\A w \in WorkerIds :
          (workers[w].pc = "call" /\ InBackoff /\ cl'.attempts > cl.attempts)
              => (~task.paused /\ task.id = workers[w].fileId)]_vars

\* the failures of an attempt the retry loop treats as transient
GenericFailures == {"timeout", "connerr", "s503"}

\* C32: after the k-th consecutive failed attempt of a call, k below the
\* retry bound, whatever the generic failure was, the client waits 2^k
\* seconds before the next attempt
C32_ExponentialBackoff ==
    (/\ cl.pc = "try"
     /\ cl.attempts > 0
     /\ \A i \in 1..Len(cl.resps) : cl.resps[i] \in GenericFailures)
        => cl.slept = Pow2(Len(cl.resps))

\* the entries of the message log GET /status returns: history[-10:]
LogShown == 10

\* C33: the message log stored on a job never holds more than the entries
\* the status surface returns; appending to a full log discards the oldest
C33_LogBounded == task.history <= LogShown

\* the result file of the job holds every row of the cleaned dataset with a
\* verdict (the timestamp is written by the statement next to the verdict's)
AllRowsWritten ==
    LET df == Cleaned(files[task.id].rows, 1)
        rf == result_files[task.id]
    IN  /\ rf.exists
        /\ DOMAIN rf.table = SeqToSet(df)
        /\ \A l \in SeqToSet(df) : rf.table[l].result # ""

\* a worker has read the dataset and is in the row loop
InRowLoop == \E w \in WorkerIds : workers[w].pc \in {"check", "call"}

\* C34: a started job that is never paused, finished or ended eventually
\* reaches done, and then every row of the cleaned dataset holds a verdict and
\* the result file contains all of them
C34_LeftAloneReachesDone == InRowLoop ~> (task.status = "done" /\ AllRowsWritten)

\* worker w runs a job that has been ended: the record of the session has
\* another id than the one the worker was started for
Ended(w) == workers[w].pc # "off" /\ workers[w].fileId # task.id

\* C35: after an end command the worker that was running the ended job starts
\* no further row and writes nothing more to the job record, to the history
\* store or to a result file under the new id, whatever commands follow
C35_EndedWorkerWritesNothing ==
    [][\A w \in WorkerIds :
          (Ended(w) /\ workers'[w] # workers[w]) =>
              /\ task' = task
              /\ history_index' = history_index
              /\ result_files' = result_files
              /\ workers'[w].pc # "call"]_vars

\* a start command is accepted: a worker slot gets a thread
Started == \E w \in WorkerIds : workers[w].pc = "off" /\ workers'[w].pc = "read"

\* C36: a start command begins the run with processed 0 and empty verdict and
\* tag counts, so that when the run is done the verdict counts sum to the
\* number of rows of the current dataset
C36_RunStartsFromZero ==
    [][/\ Started =>
              /\ task'.processed = 0
              /\ task'.results = EmptyDict
              /\ task'.tags = EmptyDict
       /\ (task'.status = "done" /\ Idle')
              => DictSum(task'.results) = Len(Cleaned(files'[task'.id].rows, 1))]_vars

\* C37: a pause command takes effect only on a job that is processing; issued
\* on an idle, done or error job it leaves the record as it is
C37_PauseOnlyWhenProcessing ==
    [][(control_pause /\ task.status # "processing") => task' = task]_vars

\* a worker is alive on a job whose status a finish command has set to done
FinishPending == task.status = "done" /\ ~Idle

\* C38: after a finish command the worker eventually stops, and the result
\* file then holds what the worker has recorded (the final save writes the
\* whole table), also when the job was paused and no resume is ever issued
C38_FinishStopsWorker == FinishPending ~> (Idle /\ result_files[task.id].exists)

\* C39: a worker that was in the pause loop when the job was finished starts
\* no further row when it is resumed, in every flow
C39_NoRowAfterFinish ==
    [][\A w \in WorkerIds :
          (workers[w].pc \in {"sleep", "wake"} /\ workers'[w].pc = "call")
              => task.status # "done"]_vars

\* C40: each processed row raises the verdict counts of the job by exactly
\* one in total, also when the handling of the row fails after its verdict
\* was counted
C40_RowCountedOnce ==
    [][\A w \in WorkerIds :
          (workers[w].pc = "call" /\ workers'[w] # workers[w])
              => DictSum(task'.results) = DictSum(task.results) + 1]_vars

====
